---- MODULE Spec2Model ----
(***************************************************************************)
(* Model of github.com/beka-birhanu/toddler: the status-code registry      *)
(* (package status), the Error value (package error) and the two           *)
(* classifiers FromValidationErrors and FromDBError.                       *)
(*                                                                         *)
(* The library has no state of its own; the state machine is a caller      *)
(* that invokes the exported operations on inputs drawn from bounded sets  *)
(* and keeps the value it got back.                                        *)
(***************************************************************************)
EXTENDS Integers, Sequences, FiniteSets, TLC

VARIABLES
    op,          \* the operation performed last
    err,         \* the error handed to the last classifier call
    entityName,  \* the entityName handed to the last FromDBError call
    ret,         \* how the last call ended: "none", "nil", "value", "panic"
    e,           \* the Error value the caller holds
    e0,          \* that value as it was when the caller obtained it
    calls,       \* NeutralizeOverDetailedStatus calls made on e since then
    fieldErrors, \* the []*FieldValidationError of the last MapValidationErrors
    code,        \* the StatusCode the caller holds
    code0,       \* that code as first picked
    scalls,      \* SuppressOverDetail applications made on code since then
    rendered,    \* the string the last GetErrorName or Error() call returned
    rendered0,   \* the string the first Error() call on the value returned
    te,          \* the Error value those Error() calls were made on
    tcalls       \* Error() calls made on that value

\* What the string-returning calls write.
texts == <<rendered, rendered0, te, tcalls>>

vars == <<op, err, entityName, ret, e, e0, calls, fieldErrors, code, code0, scalls,
          rendered, rendered0, te, tcalls>>

----------------------------------------------------------------------------
(* Bounds of the model.                                                    *)

\* NeutralizeOverDetailedStatus / SuppressOverDetail calls in a row.
MaxCalls == 3
\* Longest validator.ValidationErrors collection handed to a classifier.
MaxFailures == 3
\* Error() calls in a row on one Error value.
MaxRenders == 2

----------------------------------------------------------------------------
(* package status: the StatusCode constants.                               *)

BadRequest == 4000
BadRequestMissingField == 4001
BadRequestTypeMismatch == 4002
BadRequestFieldConstraint == 4003
BadRequestInvalidFormat == 4004
BadRequestOutOfRange == 4005
BadRequestInvalidValue == 4006
BadRequestEnumViolation == 4007

Unauthorized == 4010
UnauthorizedInvalidCredential == 4011
UnauthorizedTokenRequired == 4012
UnauthorizedInvalidToken == 4013

Forbidden == 4030
ForbiddenNotEnoughPrivilege == 4031
ForbiddenOnlyOwners == 4032

NotFound == 4040
NotFoundResource == 4041

Conflict == 4090
ConflictDuplicateData == 4091

ServerError == 5000
ServerErrorDatabase == 5001
ServerErrorServiceCommunication == 5002

\* fmt's %d of an integer: its decimal digits, with a sign when negative.
Digit(d) ==
    CASE d = 0 -> "0" [] d = 1 -> "1" [] d = 2 -> "2" [] d = 3 -> "3"
      [] d = 4 -> "4" [] d = 5 -> "5" [] d = 6 -> "6" [] d = 7 -> "7"
      [] d = 8 -> "8" [] d = 9 -> "9"

RECURSIVE NatToStr(_)
NatToStr(n) == IF n < 10 THEN Digit(n) ELSE NatToStr(n \div 10) \o Digit(n % 10)

FmtD(n) == IF n < 0 THEN "-" \o NatToStr(0 - n) ELSE NatToStr(n)

\* statusCodeMap: StatusCode -> display name.
statusCodeMap ==
    (BadRequest :> "BadRequest")
 @@ (BadRequestMissingField :> "BadRequest_MissingField")
 @@ (BadRequestTypeMismatch :> "BadRequest_TypeMismatch")
 @@ (BadRequestFieldConstraint :> "BadRequest_FieldConstraint")
 @@ (BadRequestInvalidFormat :> "BadRequest_InvalidFormat")
 @@ (BadRequestOutOfRange :> "BadRequest_OutOfRange")
 @@ (BadRequestInvalidValue :> "BadRequest_InvalidValue")
 @@ (BadRequestEnumViolation :> "BadRequest_EnumViolation")
 @@ (Unauthorized :> "Unauthorized")
 @@ (UnauthorizedInvalidCredential :> "Unauthorized_InvalidCredential")
 @@ (UnauthorizedTokenRequired :> "Unauthorized_TokenRequired")
 @@ (UnauthorizedInvalidToken :> "Unauthorized_InvalidToken")
 @@ (Forbidden :> "Forbidden")
 @@ (ForbiddenNotEnoughPrivilege :> "Forbidden_NotEnoughPrivilege")
 @@ (ForbiddenOnlyOwners :> "Forbidden_OnlyOwners")
 @@ (NotFound :> "NotFound")
 @@ (NotFoundResource :> "NotFound_Resource")
 @@ (Conflict :> "Conflict")
 @@ (ConflictDuplicateData :> "Conflict_DuplicateData")
 @@ (ServerError :> "ServerError")
 @@ (ServerErrorDatabase :> "ServerError_Database")
 @@ (ServerErrorServiceCommunication :> "ServerError_ServiceCommunication")

\* The defined StatusCode constants.
DefinedCodes == DOMAIN statusCodeMap

\* A lookup that returns the map's zero value for a missing code.
GetErrorNameZeroValue(c) ==
    IF c \in DOMAIN statusCodeMap THEN statusCodeMap[c] ELSE ""

GetErrorName(c) ==
    IF c \in DOMAIN statusCodeMap
    THEN statusCodeMap[c]
    ELSE "UnknownStatusCode-" \o FmtD(c)

\* A suppression map with a two-hop chain (OutOfRange -> InvalidValue -> BadRequest).
suppressMapChained ==
    (BadRequestOutOfRange :> BadRequestInvalidValue)
 @@ (BadRequestInvalidValue :> BadRequest)
 @@ (BadRequestEnumViolation :> BadRequest)
 @@ (ForbiddenOnlyOwners :> Forbidden)
 @@ (ServerErrorDatabase :> ServerError)
 @@ (ServerErrorServiceCommunication :> ServerError)

\* suppressMap: over-detailed StatusCode -> generalized public-safe StatusCode.
suppressMap ==
    (BadRequestOutOfRange :> BadRequest)
 @@ (BadRequestInvalidValue :> BadRequest)
 @@ (BadRequestEnumViolation :> BadRequest)
 @@ (ForbiddenOnlyOwners :> Forbidden)
 @@ (ServerErrorDatabase :> ServerError)
 @@ (ServerErrorServiceCommunication :> ServerError)

SuppressOverDetail(c) ==
    IF c \in DOMAIN suppressMap THEN suppressMap[c] ELSE c

----------------------------------------------------------------------------
(* Text helpers: strings.Join and fmt's %v.                                *)

RECURSIVE Join(_, _)
Join(elems, sep) ==
    IF Len(elems) = 0 THEN ""
    ELSE IF Len(elems) = 1 THEN elems[1]
    ELSE elems[1] \o sep \o Join(Tail(elems), sep)

\* A Go value of type any as the model draws it: a string or an int.
StrVal(s) == [t |-> "string", s |-> s, i |-> 0]
IntVal(i) == [t |-> "int", s |-> "", i |-> i]

\* fmt's %v of such a value.
FmtV(v) == IF v.t = "int" THEN FmtD(v.i) ELSE v.s

\* m[k] = v on a Go map.
MapPut(m, k, v) == [x \in (DOMAIN m) \cup {k} |-> IF x = k THEN v ELSE m[x]]

----------------------------------------------------------------------------
(* package error: the Error value.                                         *)

Error(pub, svc, pubMsg, svcMsg, pubMeta, svcMeta) ==
    [PublicStatusCode  |-> pub,
     ServiceStatusCode |-> svc,
     PublicMessage     |-> pubMsg,
     ServiceMessage    |-> svcMsg,
     PublicMetaData    |-> pubMeta,
     ServiceMetaData   |-> svcMeta]

\* Placeholder held when the caller has no Error value (a nil *Error).
NoError == Error(0, 0, "", "", <<>>, <<>>)

\* How a call ended.
Returned(val) == [kind |-> "value", val |-> val]
ReturnedNil   == [kind |-> "nil", val |-> NoError]
Panicked      == [kind |-> "panic", val |-> NoError]

\* A neutralize that generalizes the service status along with the public one.
NeutralizeBothStatuses(x) ==
    [x EXCEPT !.PublicStatusCode = SuppressOverDetail(x.PublicStatusCode),
              !.ServiceStatusCode = SuppressOverDetail(x.ServiceStatusCode)]

\* (*Error).NeutralizeOverDetailedStatus, as a function of the receiver.
NeutralizeOverDetailedStatus(x) ==
    [x EXCEPT !.PublicStatusCode = SuppressOverDetail(x.PublicStatusCode)]

\* The orders in which a range over a Go map with key set S can visit the
\* keys: the language leaves the order unspecified and the runtime varies it
\* from one loop to the next.
IterationOrders(S) ==
    {f \in [1..Cardinality(S) -> S] : \A i, j \in DOMAIN f : i # j => f[i] # f[j]}

\* The loop of formatMetaData: formatted += key + ": '" + value + "', ".
RECURSIVE appendEntries(_, _, _)
appendEntries(formatted, metaData, order) ==
    IF Len(order) = 0 THEN formatted
    ELSE appendEntries(
            formatted \o order[1] \o ": '" \o metaData[order[1]] \o "', ",
            metaData, Tail(order))

\* formatMetaData, with the order its range loop visits the keys in.
formatMetaData(metaData, order) ==
    IF Cardinality(DOMAIN metaData) = 0 THEN "{}"
    ELSE LET formatted == appendEntries("{", metaData, order)
         IN SubSeq(formatted, 1, Len(formatted) - 2) \o "}"

\* (*Error).Error(), with the orders of its two formatMetaData calls.
ErrorString(x, pubOrder, svcOrder) ==
    "{publicStatus: " \o GetErrorName(x.PublicStatusCode)
    \o " (" \o FmtD(x.PublicStatusCode) \o ")"
    \o ", serviceStatus: " \o GetErrorName(x.ServiceStatusCode)
    \o " (" \o FmtD(x.ServiceStatusCode) \o ")"
    \o ", publicMessage: '" \o x.PublicMessage \o "'"
    \o ", serviceMessage: '" \o x.ServiceMessage \o "'"
    \o ", publicMetaData: " \o formatMetaData(x.PublicMetaData, pubOrder)
    \o ", serviceMetaData: " \o formatMetaData(x.ServiceMetaData, svcOrder)
    \o "}"

----------------------------------------------------------------------------
(* package error: tag -> StatusCode tables of the validation classifier.   *)

requiredTags ==
    [t \in {"required", "required_if", "required_unless", "required_with",
            "required_with_all", "required_without", "required_without_all"}
       |-> BadRequestMissingField]

formatTags ==
    [t \in {"email", "uuid", "uuid3", "uuid4", "uuid5", "uuid3_rfc4122",
            "uuid4_rfc4122", "uuid5_rfc4122", "uuid_rfc4122", "base64",
            "base64url", "base64rawurl", "json", "image"}
       |-> BadRequestInvalidFormat]

enumTags == [t \in {"oneof"} |-> BadRequestEnumViolation]

valueConstraintTags ==
    [t \in {"eq", "ne", "eq_ignore_case", "ne_ignore_case", "unique"}
       |-> BadRequestInvalidValue]

rangeTags ==
    [t \in {"min", "max", "len", "gt", "lt", "gte", "lte"}
       |-> BadRequestOutOfRange]

fallbackStatusCode == BadRequestFieldConstraint

\* A lookup whose last table answers for every remaining tag.
mapTagToStatusCodeRangeDefault(fe) ==
    LET tag == fe.tag IN
    IF tag \in DOMAIN requiredTags THEN requiredTags[tag]
    ELSE IF tag \in DOMAIN formatTags THEN formatTags[tag]
    ELSE IF tag \in DOMAIN enumTags THEN enumTags[tag]
    ELSE IF tag \in DOMAIN valueConstraintTags THEN valueConstraintTags[tag]
    ELSE BadRequestOutOfRange

mapTagToStatusCode(fe) ==
    LET tag == fe.tag IN
    IF tag \in DOMAIN requiredTags THEN requiredTags[tag]
    ELSE IF tag \in DOMAIN formatTags THEN formatTags[tag]
    ELSE IF tag \in DOMAIN enumTags THEN enumTags[tag]
    ELSE IF tag \in DOMAIN valueConstraintTags THEN valueConstraintTags[tag]
    ELSE IF tag \in DOMAIN rangeTags THEN rangeTags[tag]
    ELSE fallbackStatusCode

\* A reason generator without the case for len, which then reads as a range.
generateReasonNoLen(fe) ==
    LET tag   == fe.tag
        field == fe.field
        param == fe.param
    IN
    IF tag \in DOMAIN requiredTags THEN field \o " is required"
    ELSE IF tag \in DOMAIN formatTags THEN field \o " must be a valid " \o tag
    ELSE IF tag \in DOMAIN rangeTags THEN field \o " must be " \o tag \o " " \o param
    ELSE IF tag \in DOMAIN enumTags THEN field \o " must be one of [" \o param \o "]"
    ELSE field \o " failed validation: " \o tag

generateReason(fe) ==
    LET tag   == fe.tag
        field == fe.field
        param == fe.param
    IN
    IF tag \in DOMAIN requiredTags THEN field \o " is required"
    ELSE IF tag \in DOMAIN formatTags THEN field \o " must be a valid " \o tag
    ELSE IF tag = "len" THEN field \o " must be exactly " \o param \o " characters"
    ELSE IF tag \in DOMAIN rangeTags THEN field \o " must be " \o tag \o " " \o param
    ELSE IF tag \in DOMAIN enumTags THEN field \o " must be one of [" \o param \o "]"
    ELSE field \o " failed validation: " \o tag

\* MapValidationErrors: one FieldValidationError per validator.FieldError, in order.
MapValidationErrors(ve) ==
    [i \in 1..Len(ve) |->
        [Field         |-> ve[i].field,
         Value         |-> ve[i].value,
         Reason        |-> generateReason(ve[i]),
         ValidationTag |-> ve[i].tag,
         StatusCode    |-> mapTagToStatusCode(ve[i])]]

----------------------------------------------------------------------------
(* The error values handed to the classifiers.  A Go error is modelled by  *)
(* what the classifiers ask of it: whether the interface is nil, its       *)
(* Error() text, whether errors.Is(err, sql.ErrNoRows) holds, the          *)
(* *pq.Error errors.As finds in it (hasPq), whether that pointer is nil    *)
(* (pqNil), and the validator.ValidationErrors the type assertion finds.   *)

NoPq == [Code |-> "", Message |-> "", Constraint |-> "", Column |-> "", Severity |-> ""]

MkErr(isNil, text, isNoRows, hasPq, pqNil, pq, isVE, ve) ==
    [isNil |-> isNil, text |-> text, isNoRows |-> isNoRows,
     hasPq |-> hasPq, pqNil |-> pqNil, pq |-> pq, isVE |-> isVE, ve |-> ve]

\* The nil error.
NilErr == MkErr(TRUE, "", FALSE, FALSE, FALSE, NoPq, FALSE, <<>>)

\* sql.ErrNoRows itself.
ErrNoRowsText == "sql: no rows in result set"
NoRowsErr == MkErr(FALSE, ErrNoRowsText, TRUE, FALSE, FALSE, NoPq, FALSE, <<>>)

\* (*pq.Error).Error().
PqErrorText(pq) == "pq: " \o pq.Message

\* A *pq.Error passed as it is.
PqErr(pq) == MkErr(FALSE, PqErrorText(pq), FALSE, TRUE, FALSE, pq, FALSE, <<>>)

\* error((*pq.Error)(nil)): a non-nil interface holding a nil *pq.Error.
\* errors.Is finds no sql.ErrNoRows in it, errors.As succeeds and leaves the
\* target nil; there is no pq.Error behind the pointer and no Error() text.
TypedNilPqErr == MkErr(FALSE, "", FALSE, TRUE, TRUE, NoPq, FALSE, <<>>)

\* errors.Join(sql.ErrNoRows, pqErr): a chain holding both.
JoinedErr(pq) ==
    MkErr(FALSE, ErrNoRowsText \o "\n" \o PqErrorText(pq), TRUE, TRUE, FALSE, pq,
          FALSE, <<>>)

\* errors.New(text): an error of no recognized shape.
OtherErr(text) == MkErr(FALSE, text, FALSE, FALSE, FALSE, NoPq, FALSE, <<>>)

\* A validator.ValidationErrors; its Error() text is not read when the
\* type assertion succeeds.
ValidationErr(ve) ==
    MkErr(FALSE, "validation failed", FALSE, FALSE, FALSE, NoPq, TRUE, ve)

----------------------------------------------------------------------------
(* package error: FromValidationErrors.                                    *)

\* The field names the model draws, in byte order, and from them the keys
\* serviceMeta can hold, in byte order ("reason" sorts before "status_code",
\* and no field name is a prefix of another).
FieldOrder == <<"Age", "Email", "Name">>

RECURSIVE KeysOf(_)
KeysOf(fs) ==
    IF Len(fs) = 0 THEN <<>>
    ELSE <<fs[1] \o "reason", fs[1] \o "status_code">> \o KeysOf(Tail(fs))

KeyOrder == KeysOf(FieldOrder)

\* fmt's %v of the map[string]string serviceMeta: "map[k:v k:v]", keys sorted.
FmtMap(m) ==
    LET present == SelectSeq(KeyOrder, LAMBDA k : k \in DOMAIN m)
        pairs   == [i \in 1..Len(present) |-> present[i] \o ":" \o m[present[i]]]
    IN "map[" \o Join(pairs, " ") \o "]"

\* serviceMeta after the loop over fieldErrors (later entries overwrite).
RECURSIVE serviceMetaOf(_)
serviceMetaOf(fes) ==
    IF Len(fes) = 0 THEN <<>>
    ELSE LET fe   == fes[Len(fes)]
             rest == serviceMetaOf(SubSeq(fes, 1, Len(fes) - 1))
         IN MapPut(MapPut(rest, fe.Field \o "reason", fe.ValidationTag),
                   fe.Field \o "status_code", FmtD(fe.StatusCode))

\* The status chosen when the count is taken of the failing fields themselves.
finalStatusOfFieldErrors(fes) ==
    IF Len(fes) # 1 THEN BadRequest ELSE fes[1].StatusCode

\* finalStatus: chosen while fields, the slice that is counted, is still empty.
finalStatusOf(fes) ==
    LET fields == <<>> IN
    IF Len(fields) # 1 THEN BadRequest ELSE fes[1].StatusCode

\* The field list when it is read back from the keys of publicMeta, which
\* holds one entry per distinct field name.
RECURSIVE fieldsOfDistinct(_)
fieldsOfDistinct(fes) ==
    IF Len(fes) = 0 THEN <<>>
    ELSE LET rest == fieldsOfDistinct(SubSeq(fes, 1, Len(fes) - 1))
             f    == fes[Len(fes)].Field
         IN IF \E i \in 1..Len(rest) : rest[i] = f THEN rest ELSE Append(rest, f)

\* fields after the loop: one append per field error, in order.
fieldsOf(fes) == [i \in 1..Len(fes) |-> fes[i].Field]

\* The not-a-validator-error branch: err.Error() panics on a nil error, and
\* on a nil *pq.Error, whose Error method reads the Message field.
notValidatorBranch(er) ==
    IF er.isNil \/ (er.hasPq /\ er.pqNil) THEN Panicked
    ELSE Returned(Error(BadRequest, BadRequest, "Invalid input provided",
            "Unknown validation error: " \o er.text,
            [k \in {"error_type"} |-> "Validation"],
            ("error_type" :> "ValidatorErrorUnknown") @@ ("raw_error" :> er.text)))

FromValidationErrors(er) ==
    IF ~er.isVE THEN notValidatorBranch(er)
    ELSE
    LET fes == MapValidationErrors(er.ve)
        finalStatus == finalStatusOf(fes)
        publicMessages ==
            [i \in 1..Len(fes) |-> fes[i].Field \o ": " \o fes[i].Reason]
        serviceMessages ==
            [i \in 1..Len(fes) |->
                "Field '" \o fes[i].Field \o "' with value '" \o FmtV(fes[i].Value)
                \o "' failed on '" \o fes[i].ValidationTag \o "'"]
        fields == fieldsOf(fes)
        serviceMeta == serviceMetaOf(fes)
    IN Returned(Error(finalStatus, finalStatus,
            "Invalid input in one or more fields",
            Join(serviceMessages, "; "),
            ("error_type" :> "Validation")
             @@ ("fields" :> Join(fields, ", "))
             @@ ("failures" :> Join(publicMessages, "; ")),
            ("error_type" :> "ValidatorFieldErrors")
             @@ ("fields" :> Join(fields, ", "))
             @@ ("details" :> FmtMap(serviceMeta))))

----------------------------------------------------------------------------
(* package error: FromDBError.                                             *)

postgresErrUniqueViolation  == "23505"
postgresErrForeignKey       == "23503"
postgresErrNotNullViolation == "23502"
postgresErrCheckViolation   == "23514"

\* The two-key public metadata every branch builds.
PublicMeta(errorType, name) ==
    ("error_type" :> errorType) @@ ("resourceName" :> name)

\* The service metadata of the four handled vendor-code branches; nameKey is
\* "constraint" or "column" and nameVal the driver field stored under it.
PqServiceMeta(pq, errorType, name, nameKey, nameVal) ==
    ("pgcode" :> pq.Code)
 @@ (nameKey :> nameVal)
 @@ ("error_type" :> errorType)
 @@ ("resourceName" :> name)
 @@ ("error_message" :> pq.Message)
 @@ ("error_severity" :> pq.Severity)
 @@ ("raw_error" :> PqErrorText(pq))

\* The switch on pqErr.Code.
pqBranch(pq, name) ==
    IF pq.Code = postgresErrUniqueViolation THEN
        Error(ConflictDuplicateData, ConflictDuplicateData,
            "A " \o name \o " with the same value already exists",
            "Unique constraint violation on " \o name \o ": " \o pq.Message,
            PublicMeta("Data duplication", name),
            PqServiceMeta(pq, "Data duplication", name, "constraint", pq.Constraint))
    ELSE IF pq.Code = postgresErrForeignKey THEN
        Error(BadRequest, BadRequest,
            name \o " has invalid reference to related data",
            "Foreign key constraint failed on " \o name \o ": " \o pq.Message,
            PublicMeta("Foreign key violation", name),
            PqServiceMeta(pq, "Foreign key violation", name, "constraint", pq.Constraint))
    ELSE IF pq.Code = postgresErrNotNullViolation THEN
        Error(BadRequest, BadRequest,
            name \o " is missing required fields",
            "NOT NULL constraint failed on " \o name \o ": " \o pq.Message,
            PublicMeta("Missing field", name),
            PqServiceMeta(pq, "Missing field", name, "column", pq.Column))
    ELSE IF pq.Code = postgresErrCheckViolation THEN
        Error(BadRequest, BadRequest,
            name \o " failed validation rules",
            "CHECK constraint violation on " \o name \o ": " \o pq.Message,
            PublicMeta("Constraint check failed", name),
            PqServiceMeta(pq, "Constraint check failed", name, "constraint", pq.Constraint))
    ELSE
        Error(ServerError, ServerErrorDatabase,
            "A server error occurred. Please try again later.",
            "Unhandled PostgreSQL error for " \o name \o ": " \o pq.Message,
            PublicMeta("Internal database error", name),
            ("pgcode" :> pq.Code)
             @@ ("resourceName" :> name)
             @@ ("error_message" :> pq.Message)
             @@ ("error_severity" :> pq.Severity)
             @@ ("raw_error" :> PqErrorText(pq)))

\* The errors.Is(err, sql.ErrNoRows) branch.
noRowsBranch(er, name) ==
    Error(NotFoundResource, NotFoundResource,
        name \o " not found",
        "No record found for " \o name \o ": " \o er.text,
        PublicMeta("Data not found", name),
        ("error_type" :> "Data not found")
         @@ ("resourceName" :> name)
         @@ ("raw_error" :> er.text))

\* A fallback that copies the raw error text into the public metadata.
unknownBranchLeaky(er, name) ==
    Error(ServerError, ServerErrorDatabase,
        "A server error occurred. Please try again later.",
        "Unexpected DB error for " \o name \o ": " \o er.text,
        PublicMeta("Unknown server error", name) @@ ("raw_error" :> er.text),
        ("error_type" :> "Unknown database error")
         @@ ("resourceName" :> name)
         @@ ("raw_error" :> er.text))

\* A fallback that shows the database-specific status to the public.
unknownBranchDetailedPublic(er, name) ==
    Error(ServerErrorDatabase, ServerErrorDatabase,
        "A server error occurred. Please try again later.",
        "Unexpected DB error for " \o name \o ": " \o er.text,
        PublicMeta("Unknown server error", name),
        ("error_type" :> "Unknown database error")
         @@ ("resourceName" :> name)
         @@ ("raw_error" :> er.text))

\* The fallback for an error of no recognized shape.
unknownBranch(er, name) ==
    Error(ServerError, ServerErrorDatabase,
        "A server error occurred. Please try again later.",
        "Unexpected DB error for " \o name \o ": " \o er.text,
        PublicMeta("Unknown server error", name),
        ("error_type" :> "Unknown database error")
         @@ ("resourceName" :> name)
         @@ ("raw_error" :> er.text))

\* A classifier that dispatches on the vendor code before the no-rows check.
FromDBErrorPqFirst(er, name) ==
    IF er.isNil THEN ReturnedNil
    ELSE IF er.hasPq THEN
        (IF er.pqNil THEN Panicked ELSE Returned(pqBranch(er.pq, name)))
    ELSE IF er.isNoRows THEN Returned(noRowsBranch(er, name))
    ELSE Returned(unknownBranch(er, name))

\* FromDBError: the nil check, the no-rows check, then errors.As and the
\* switch on pqErr.Code, which dereferences the pointer errors.As stored and
\* panics when that pointer is nil.
FromDBError(er, name) ==
    IF er.isNil THEN ReturnedNil
    ELSE IF er.isNoRows THEN Returned(noRowsBranch(er, name))
    ELSE IF er.hasPq THEN
        (IF er.pqNil THEN Panicked ELSE Returned(pqBranch(er.pq, name)))
    ELSE Returned(unknownBranch(er, name))

----------------------------------------------------------------------------
(* The inputs the caller draws.                                            *)

Fields == {FieldOrder[i] : i \in 1..Len(FieldOrder)}

KnownTags ==
    (DOMAIN requiredTags) \cup (DOMAIN formatTags) \cup (DOMAIN enumTags)
    \cup (DOMAIN valueConstraintTags) \cup (DOMAIN rangeTags)

\* Validator tags that none of the five tables holds.
UnknownTags == {"alphanum", "url"}

Tags == KnownTags \cup UnknownTags

Params == {"", "18"}

Values == {StrVal("x"), IntVal(17)}

FieldError(field, tag, param, value) ==
    [field |-> field, tag |-> tag, param |-> param, value |-> value]

\* Every single failure: each field with each tag.
SingleFailures ==
    {FieldError(f, t, p, v) : f \in Fields, t \in Tags, p \in Params, v \in Values}

\* The failures longer collections are built from (a field may fail twice,
\* as same-named fields of nested structs do).
SampleFailures ==
    {FieldError("Email", "email", "", StrVal("x")),
     FieldError("Age", "gte", "18", IntVal(17)),
     FieldError("Name", "required", "", StrVal("")),
     FieldError("Email", "oneof", "a b", StrVal("x")),
     FieldError("Name", "alphanum", "", StrVal("x"))}

RECURSIVE SeqsOfLen(_, _)
SeqsOfLen(S, n) ==
    IF n = 0 THEN {<<>>}
    ELSE {Append(q, x) : q \in SeqsOfLen(S, n - 1), x \in S}

ValidationErrorsInputs ==
    {<<>>} \cup {<<fe>> : fe \in SingleFailures}
    \cup UNION {SeqsOfLen(SampleFailures, n) : n \in 2..MaxFailures}

PqCodes ==
    {postgresErrUniqueViolation, postgresErrForeignKey,
     postgresErrNotNullViolation, postgresErrCheckViolation, "42P01", ""}

PqErrors ==
    [Code : PqCodes,
     Message : {"duplicate key value", "boom"},
     Constraint : {"", "users_email_key"},
     Column : {"", "email"},
     Severity : {"ERROR", "FATAL"}]

OtherErrors == {OtherErr("connection refused"), OtherErr("")}

\* Errors that are no validator.ValidationErrors.
ForeignErrors ==
    {NilErr, NoRowsErr, TypedNilPqErr} \cup OtherErrors
    \cup {PqErr(pq) : pq \in PqErrors} \cup {JoinedErr(pq) : pq \in PqErrors}

EntityNames == {"User", "Order"}

UndefinedCodes == {0 - 1, 0, 4008, 9999}

Codes == DefinedCodes \cup UndefinedCodes

\* The Error literals the caller builds itself.
ConstructedErrors ==
    {Error(pub, svc, pubMsg, "Field 'username' is missing in the payload", pubMeta, svcMeta) :
        pub \in Codes,
        svc \in {BadRequestMissingField, ServerErrorDatabase, 4008},
        pubMsg \in {"", "Missing required field"},
        pubMeta \in {<<>>, ("field" :> "username")},
        svcMeta \in {<<>>, ("requestId" :> "abc123"),
                     ("requestId" :> "abc123") @@ ("trace" :> "t1")}}

----------------------------------------------------------------------------
(* The caller.                                                             *)

Init ==
    /\ op = "init"
    /\ err = NilErr
    /\ entityName = ""
    /\ ret = "none"
    /\ e = NoError
    /\ e0 = NoError
    /\ calls = 0
    /\ fieldErrors = <<>>
    /\ code = 0
    /\ code0 = 0
    /\ scalls = 0
    /\ rendered = ""
    /\ rendered0 = ""
    /\ te = NoError
    /\ tcalls = 0

\* The caller takes the outcome of a call and holds the value returned.
Take(out) ==
    /\ ret' = out.kind
    /\ e' = out.val
    /\ e0' = out.val
    /\ calls' = 0

\* Each run of the caller makes one call on one input and then works on
\* what it got back.
CallFromValidationErrors ==
    /\ op = "init"
    /\ \E er \in ForeignErrors \cup {ValidationErr(ve) : ve \in ValidationErrorsInputs} :
        /\ op' = "FromValidationErrors"
        /\ err' = er
        /\ Take(FromValidationErrors(er))
    /\ UNCHANGED <<entityName, fieldErrors, code, code0, scalls>>
    /\ UNCHANGED texts

CallMapValidationErrors ==
    /\ op = "init"
    /\ \E ve \in ValidationErrorsInputs :
        /\ op' = "MapValidationErrors"
        /\ err' = ValidationErr(ve)
        /\ fieldErrors' = MapValidationErrors(ve)
    /\ UNCHANGED <<entityName, ret, e, e0, calls, code, code0, scalls>>
    /\ UNCHANGED texts

CallFromDBError ==
    /\ op = "init"
    /\ \E er \in ForeignErrors, name \in EntityNames :
        /\ op' = "FromDBError"
        /\ err' = er
        /\ entityName' = name
        /\ Take(FromDBError(er, name))
    /\ UNCHANGED <<fieldErrors, code, code0, scalls>>
    /\ UNCHANGED texts

Construct ==
    /\ op = "init"
    /\ \E x \in ConstructedErrors :
        /\ op' = "Construct"
        /\ Take(Returned(x))
    /\ UNCHANGED <<err, entityName, fieldErrors, code, code0, scalls>>
    /\ UNCHANGED texts

CallNeutralizeOverDetailedStatus ==
    /\ ret = "value"
    /\ calls < MaxCalls
    /\ e' = NeutralizeOverDetailedStatus(e)
    /\ calls' = calls + 1
    /\ UNCHANGED <<op, err, entityName, ret, e0, fieldErrors, code, code0, scalls>>
    /\ UNCHANGED texts

PickCode ==
    /\ op = "init"
    /\ \E c \in Codes :
        /\ op' = "PickCode"
        /\ code' = c /\ code0' = c /\ scalls' = 0
    /\ UNCHANGED <<err, entityName, ret, e, e0, calls, fieldErrors>>
    /\ UNCHANGED texts

CallSuppressOverDetail ==
    /\ op = "PickCode"
    /\ scalls < MaxCalls
    /\ code' = SuppressOverDetail(code)
    /\ scalls' = scalls + 1
    /\ UNCHANGED <<op, err, entityName, ret, e, e0, calls, fieldErrors, code0>>
    /\ UNCHANGED texts

CallGetErrorName ==
    /\ op = "PickCode"
    /\ op' = "GetErrorName"
    /\ rendered' = GetErrorName(code)
    /\ UNCHANGED <<err, entityName, ret, e, e0, calls, fieldErrors, code, code0, scalls,
                   rendered0, te, tcalls>>

\* The caller renders an Error literal it built.  A call on a value other
\* than the one rendered before starts a new count.
CallError ==
    /\ op = "Construct"
    /\ ret = "value"
    /\ LET fresh == tcalls = 0 \/ te # e IN
        /\ fresh \/ tcalls < MaxRenders
        /\ \E pubOrder \in IterationOrders(DOMAIN e.PublicMetaData),
              svcOrder \in IterationOrders(DOMAIN e.ServiceMetaData) :
            /\ rendered' = ErrorString(e, pubOrder, svcOrder)
            /\ rendered0' = IF fresh THEN rendered' ELSE rendered0
        /\ te' = e
        /\ tcalls' = IF fresh THEN 1 ELSE tcalls + 1
    /\ UNCHANGED <<op, err, entityName, ret, e, e0, calls, fieldErrors, code, code0, scalls>>

Next ==
    \/ CallFromValidationErrors
    \/ CallMapValidationErrors
    \/ CallFromDBError
    \/ Construct
    \/ CallNeutralizeOverDetailedStatus
    \/ PickCode
    \/ CallSuppressOverDetail
    \/ CallGetErrorName
    \/ CallError

Spec == Init /\ [][Next]_vars

----------------------------------------------------------------------------
(* Properties.                                                             *)

\* C1: both classifiers are total: no call of FromValidationErrors or
\* FromDBError panics, whatever the error (the nil error included), and
\* FromValidationErrors on an error that is no validator.ValidationErrors
\* returns an Error with both statuses BadRequest whose service metadata
\* carries the raw error text.
C1_ClassifiersTotal ==
    /\ op \in {"FromValidationErrors", "FromDBError"} => ret # "panic"
    /\ (op = "FromValidationErrors" /\ ~err.isVE) =>
        /\ ret = "value"
        /\ e0.PublicStatusCode = BadRequest
        /\ e0.ServiceStatusCode = BadRequest
        /\ "raw_error" \in DOMAIN e0.ServiceMetaData
        /\ ~err.isNil => e0.ServiceMetaData["raw_error"] = err.text

\* C2: SuppressOverDetail is idempotent on the defined codes: no value of
\* suppressMap is one of its keys, so once SuppressOverDetail has been
\* applied to a code, the code is a fixed point and further applications
\* leave it at SuppressOverDetail(the code first picked).
C2_SuppressIdempotent ==
    /\ \A k \in DOMAIN suppressMap : suppressMap[k] \notin DOMAIN suppressMap
    /\ (op = "PickCode" /\ code0 \in DefinedCodes /\ scalls >= 1) =>
        /\ code \notin DOMAIN suppressMap
        /\ code = (IF code0 \in DOMAIN suppressMap THEN suppressMap[code0] ELSE code0)

C2_Witness ==
    /\ op = "PickCode"
    /\ code0 = BadRequestOutOfRange
    /\ scalls = 2
    /\ code = BadRequest

\* C3: after one or more NeutralizeOverDetailedStatus calls on an Error
\* value, PublicStatusCode is SuppressOverDetail(the initial PublicStatusCode)
\* (the initial code itself when it is no suppressMap key) and the other five
\* fields are as they were initially.
C3_NeutralizeFrame ==
    (ret = "value" /\ calls >= 1) =>
        /\ e.PublicStatusCode =
            (IF e0.PublicStatusCode \in DOMAIN suppressMap
             THEN suppressMap[e0.PublicStatusCode]
             ELSE e0.PublicStatusCode)
        /\ e.ServiceStatusCode = e0.ServiceStatusCode
        /\ e.PublicMessage = e0.PublicMessage
        /\ e.ServiceMessage = e0.ServiceMessage
        /\ e.PublicMetaData = e0.PublicMetaData
        /\ e.ServiceMetaData = e0.ServiceMetaData
        /\ e0.PublicStatusCode \notin DOMAIN suppressMap => e = e0

C3_Witness ==
    /\ op = "Construct"
    /\ calls = 2
    /\ e0.PublicStatusCode = ServerErrorDatabase
    /\ e0.ServiceStatusCode = ServerErrorDatabase
    /\ e.PublicStatusCode = ServerError
    /\ e.ServiceStatusCode = ServerErrorDatabase

\* The server-error band, 5000 - 5009.
ServerErrorClass == 5000..5009

\* C4: FromDBError assigns the (public, service) statuses by category: a
\* no-rows error gives (NotFoundResource, NotFoundResource), also when the
\* chain holds a vendor code as well (the no-rows check comes first); vendor
\* code 23505 gives (ConflictDuplicateData, ConflictDuplicateData); 23503,
\* 23502 and 23514 give (BadRequest, BadRequest); any other vendor code gives
\* (ServerError, ServerErrorDatabase); an error of no recognized shape
\* (neither no-rows nor a *pq.Error) gives two statuses of the server-error
\* class.  An error of each of these categories is answered with a value; a
\* nil *pq.Error carries no vendor code and is in none of them.
C4_DBStatusByCategory ==
    (op = "FromDBError" /\ ~err.isNil) =>
        LET pair == <<e0.PublicStatusCode, e0.ServiceStatusCode>> IN
        /\ err.isNoRows =>
            ret = "value" /\ pair = <<NotFoundResource, NotFoundResource>>
        /\ (~err.isNoRows /\ err.hasPq /\ ~err.pqNil) =>
            /\ ret = "value"
            /\ err.pq.Code = "23505" =>
                pair = <<ConflictDuplicateData, ConflictDuplicateData>>
            /\ err.pq.Code \in {"23503", "23502", "23514"} =>
                pair = <<BadRequest, BadRequest>>
            /\ err.pq.Code \notin {"23505", "23503", "23502", "23514"} =>
                pair = <<ServerError, ServerErrorDatabase>>
        /\ (~err.isNoRows /\ ~err.hasPq) =>
            /\ ret = "value"
            /\ e0.PublicStatusCode \in ServerErrorClass
            /\ e0.ServiceStatusCode \in ServerErrorClass

\* A chain holding both sql.ErrNoRows and a unique-violation *pq.Error is
\* classified as not found.
C4_Witness ==
    /\ op = "FromDBError"
    /\ err.isNoRows /\ err.hasPq /\ err.pq.Code = "23505"
    /\ ret = "value"
    /\ e0.PublicStatusCode = NotFoundResource
    /\ e0.ServiceStatusCode = NotFoundResource

\* An Error value with every field filled in.
Populated(x) ==
    /\ x.PublicStatusCode \in DefinedCodes
    /\ x.ServiceStatusCode \in DefinedCodes
    /\ x.PublicMessage # ""
    /\ x.ServiceMessage # ""
    /\ DOMAIN x.PublicMetaData # {}
    /\ DOMAIN x.ServiceMetaData # {}

\* C5: FromDBError returns nil exactly when the error is nil; for every
\* non-nil error it returns a populated Error value and does not panic.
C5_DBNilIffNil ==
    op = "FromDBError" =>
        /\ ret \in {"nil", "value"}
        /\ (ret = "nil") <=> err.isNil
        /\ ~err.isNil => (ret = "value" /\ Populated(e0))

\* The category FromDBError's statuses are assigned by.
DBCategory(er) ==
    IF er.isNoRows THEN "no rows"
    ELSE IF er.hasPq THEN
        (IF er.pqNil THEN "nil pointer"
         ELSE IF er.pq.Code \in {"23505", "23503", "23502", "23514"}
         THEN er.pq.Code ELSE "unhandled")
    ELSE "unknown"

\* The coarse error_type tags of the public metadata.
PublicErrorTypes ==
    {"Data not found", "Data duplication", "Foreign key violation",
     "Missing field", "Constraint check failed", "Internal database error",
     "Unknown server error"}

\* C6: for every non-nil error the public metadata FromDBError returns has
\* exactly the keys error_type and resourceName, holding a coarse tag and
\* the entity name; no entry is the vendor code, constraint or column name,
\* driver message, severity or raw error text; and any other error of the
\* same category with the same entity name yields the same public metadata.
C6_DBPublicMetaOpaque ==
    (op = "FromDBError" /\ ret = "value") =>
        /\ DOMAIN e.PublicMetaData = {"error_type", "resourceName"}
        /\ e.PublicMetaData["error_type"] \in PublicErrorTypes
        /\ e.PublicMetaData["resourceName"] = entityName
        /\ \A k \in DOMAIN e.PublicMetaData :
            e.PublicMetaData[k] \notin
                {err.text, err.pq.Code, err.pq.Constraint, err.pq.Column,
                 err.pq.Message, err.pq.Severity} \ {""}
        /\ \A other \in ForeignErrors \ {NilErr} :
            DBCategory(other) = DBCategory(err) =>
                FromDBError(other, entityName).val.PublicMetaData = e.PublicMetaData

C6_Witness ==
    /\ op = "FromDBError"
    /\ ret = "value"
    /\ err.hasPq /\ ~err.isNoRows
    /\ err.pq.Code = "23502" /\ err.pq.Column = "email"
    /\ err.pq.Constraint = "users_email_key"
    /\ e.PublicMetaData = ("error_type" :> "Missing field") @@ ("resourceName" :> "User")

\* The five rule-category tables in the precedence order required-presence,
\* format/pattern, range/length, enumeration/one-of, value-equality/uniqueness.
TablesInStatedOrder ==
    <<requiredTags, formatTags, rangeTags, enumTags, valueConstraintTags>>

\* The code of the first table of that order holding the tag; the
\* field-constraint code when none holds it.
FirstTableCode(tag) ==
    LET hits == {i \in 1..Len(TablesInStatedOrder) :
                    tag \in DOMAIN TablesInStatedOrder[i]}
    IN IF hits = {} THEN BadRequestFieldConstraint
       ELSE LET first == CHOOSE i \in hits : \A j \in hits : i <= j
            IN TablesInStatedOrder[first][tag]

\* C7: the status code of every field failure is the code of the first
\* table, in the stated precedence order, that holds its tag, and
\* BadRequestFieldConstraint when no table holds it; the five tables are
\* pairwise disjoint.
C7_TagPrecedence ==
    /\ \A i, j \in 1..Len(TablesInStatedOrder) :
        i # j => (DOMAIN TablesInStatedOrder[i]) \cap (DOMAIN TablesInStatedOrder[j]) = {}
    /\ op = "MapValidationErrors" =>
        /\ Len(fieldErrors) = Len(err.ve)
        /\ \A i \in 1..Len(fieldErrors) :
            /\ fieldErrors[i].ValidationTag = err.ve[i].tag
            /\ fieldErrors[i].StatusCode = FirstTableCode(err.ve[i].tag)

C7_Witness ==
    /\ op = "MapValidationErrors"
    /\ Len(fieldErrors) = 2
    /\ fieldErrors[1].ValidationTag = "gte"
    /\ fieldErrors[1].StatusCode = BadRequestOutOfRange
    /\ fieldErrors[2].ValidationTag = "alphanum"
    /\ fieldErrors[2].StatusCode = BadRequestFieldConstraint

\* The README's tag-to-status table.
ReadmeStatus(tag) ==
    IF tag \in DOMAIN requiredTags THEN BadRequestMissingField
    ELSE IF tag \in DOMAIN formatTags THEN BadRequestInvalidFormat
    ELSE IF tag \in DOMAIN rangeTags THEN BadRequestOutOfRange
    ELSE IF tag \in DOMAIN enumTags THEN BadRequestEnumViolation
    ELSE IF tag \in DOMAIN valueConstraintTags THEN BadRequestInvalidValue
    ELSE BadRequest

\* C8: per the README's tag-to-status table, a field failure whose tag is
\* mapped in no category is assigned BadRequest, and Required, Format,
\* Range, Enum and Value-constraint tags are assigned BadRequestMissingField,
\* BadRequestInvalidFormat, BadRequestOutOfRange, BadRequestEnumViolation
\* and BadRequestInvalidValue.
C8_ReadmeTagTable ==
    op = "MapValidationErrors" =>
        \A i \in 1..Len(fieldErrors) :
            fieldErrors[i].StatusCode = ReadmeStatus(fieldErrors[i].ValidationTag)

\* C9: for every validator.ValidationErrors, of any length and also with
\* exactly one failing field, the Error FromValidationErrors returns has
\* PublicStatusCode and ServiceStatusCode both BadRequest; the per-field
\* code is never the aggregate status.
C9_AggregateAlwaysBadRequest ==
    (op = "FromValidationErrors" /\ err.isVE) =>
        /\ ret = "value"
        /\ e0.PublicStatusCode = BadRequest
        /\ e0.ServiceStatusCode = BadRequest

C9_Witness ==
    /\ op = "FromValidationErrors"
    /\ err.isVE
    /\ Len(err.ve) = 1
    /\ err.ve[1].tag = "required"
    /\ mapTagToStatusCode(err.ve[1]) = BadRequestMissingField
    /\ e0.PublicStatusCode = BadRequest
    /\ e0.ServiceStatusCode = BadRequest

\* The README's signup example: Email fails email, Age fails gte=18.
ReadmeExample ==
    <<FieldError("Email", "email", "", StrVal("x")),
      FieldError("Age", "gte", "18", IntVal(17))>>

\* C10: for every validator.ValidationErrors the public message is
\* "Invalid input in one or more fields"; public metadata 'fields' is the
\* failing field names in input order, one per failure, joined by ", ";
\* 'failures' is the "<field>: <reason>" strings in that order joined by
\* "; "; service metadata 'fields' equals public metadata 'fields'.
C10_AggregateTexts ==
    (op = "FromValidationErrors" /\ err.isVE) =>
        LET ve      == err.ve
            names   == [i \in 1..Len(ve) |-> ve[i].field]
            reasons == [i \in 1..Len(ve) |-> ve[i].field \o ": " \o generateReason(ve[i])]
        IN
        /\ ret = "value"
        /\ e.PublicMessage = "Invalid input in one or more fields"
        /\ e.PublicMetaData["fields"] = Join(names, ", ")
        /\ e.PublicMetaData["failures"] = Join(reasons, "; ")
        /\ e.ServiceMetaData["fields"] = e.PublicMetaData["fields"]
        /\ ve = ReadmeExample =>
            /\ e.PublicMetaData["fields"] = "Email, Age"
            /\ e.PublicMetaData["failures"] =
                "Email: Email must be a valid email; Age: Age must be gte 18"

\* The same field failing twice is listed twice.
C10_Witness ==
    /\ op = "FromValidationErrors"
    /\ err.isVE
    /\ Len(err.ve) = 3
    /\ e.PublicMetaData["fields"] = "Email, Age, Email"
    /\ e.PublicMetaData["failures"] =
        "Email: Email must be a valid email; Age: Age must be gte 18; Email: Email must be one of [a b]"
    /\ e.ServiceMetaData["fields"] = "Email, Age, Email"

\* C11: GetErrorName is total: for every code it returns a non-empty
\* string, the registered display name when the code is a defined constant
\* and otherwise "UnknownStatusCode-<code>" with the code in decimal, also
\* for an undefined code inside a band such as 4008.
C11_GetErrorNameTotal ==
    op = "GetErrorName" =>
        /\ rendered # ""
        /\ code \in DefinedCodes => rendered = statusCodeMap[code]
        /\ code \notin DefinedCodes =>
            /\ Len(rendered) > Len("UnknownStatusCode-")
            /\ SubSeq(rendered, 1, Len("UnknownStatusCode-")) = "UnknownStatusCode-"
        /\ code = 4008 => rendered = "UnknownStatusCode-4008"
        /\ code = 9999 => rendered = "UnknownStatusCode-9999"
        /\ code = 0 => rendered = "UnknownStatusCode-0"
        /\ code = 0 - 1 => rendered = "UnknownStatusCode--1"
        /\ code = NotFoundResource => rendered = "NotFound_Resource"

C11_Witness ==
    /\ op = "GetErrorName"
    /\ code = 4008
    /\ rendered = "UnknownStatusCode-4008"

\* The Error value of TestError_Error and the string the test expects.
TestErrorValue ==
    Error(BadRequestMissingField, BadRequestMissingField,
        "Missing required field", "Field 'username' is missing in the payload",
        ("field" :> "username"), ("requestId" :> "abc123"))

TestErrorExpected ==
    "{publicStatus: BadRequest_MissingField (4001), serviceStatus: BadRequest_MissingField (4001), publicMessage: 'Missing required field', serviceMessage: 'Field 'username' is missing in the payload', publicMetaData: {field: 'username'}, serviceMetaData: {requestId: 'abc123'}}"

\* C12: Error() is a deterministic function of the six fields: every call
\* on a given Error value returns the same string, of the form
\* "{publicStatus: <name> (<code>), serviceStatus: <name> (<code>),
\* publicMessage: '<msg>', serviceMessage: '<msg>', publicMetaData: <m>,
\* serviceMetaData: <m>}", where an empty mapping renders as "{}" and any
\* other as "{key: 'value', key: 'value'}" with every entry exactly once.
C12_ErrorDeterministic ==
    (tcalls >= 1 /\ te = e) =>
        /\ \E pubOrder \in IterationOrders(DOMAIN e.PublicMetaData),
              svcOrder \in IterationOrders(DOMAIN e.ServiceMetaData) :
            rendered = ErrorString(e, pubOrder, svcOrder)
        /\ DOMAIN e.PublicMetaData = {} =>
            \E i \in 1..Len(rendered) :
                SubSeq(rendered, i, i + Len("publicMetaData: {},") - 1) = "publicMetaData: {},"
        /\ e = TestErrorValue => rendered = TestErrorExpected
        /\ tcalls >= 2 => rendered = rendered0

\* C13: in every branch FromDBError takes for an error carrying a vendor
\* code (unique, foreign-key, not-null, check and the default branch for an
\* unhandled code) the service metadata retains the vendor code, the
\* constraint or column name the driver supplied, the raw driver message
\* and the severity.
C13_ServiceMetaRetainsDriverFields ==
    (op = "FromDBError" /\ ret = "value" /\ err.hasPq /\ ~err.isNoRows) =>
        LET m == e.ServiceMetaData IN
        /\ "pgcode" \in DOMAIN m /\ m["pgcode"] = err.pq.Code
        /\ "error_message" \in DOMAIN m /\ m["error_message"] = err.pq.Message
        /\ "error_severity" \in DOMAIN m /\ m["error_severity"] = err.pq.Severity
        /\ (err.pq.Constraint # "" \/ err.pq.Column # "") =>
            \/ "constraint" \in DOMAIN m /\ m["constraint"] = err.pq.Constraint
            \/ "column" \in DOMAIN m /\ m["column"] = err.pq.Column

\* C14: the reason of every field failure follows the template of the
\* category its status code names: BadRequestMissingField "<field> is
\* required"; BadRequestInvalidFormat "<field> must be a valid <tag>";
\* BadRequestOutOfRange "<field> must be exactly <param> characters" for len
\* and "<field> must be <tag> <param>" otherwise; BadRequestEnumViolation
\* "<field> must be one of [<param>]"; every other tag "<field> failed
\* validation: <tag>".
C14_ReasonMatchesCategory ==
    op = "MapValidationErrors" =>
        \A i \in 1..Len(fieldErrors) :
            LET fe     == fieldErrors[i]
                field  == err.ve[i].field
                tag    == err.ve[i].tag
                param  == err.ve[i].param
                status == fe.StatusCode
            IN
            /\ fe.Field = field
            /\ status = BadRequestMissingField => fe.Reason = field \o " is required"
            /\ status = BadRequestInvalidFormat =>
                fe.Reason = field \o " must be a valid " \o tag
            /\ (status = BadRequestOutOfRange /\ tag = "len") =>
                fe.Reason = field \o " must be exactly " \o param \o " characters"
            /\ (status = BadRequestOutOfRange /\ tag # "len") =>
                fe.Reason = field \o " must be " \o tag \o " " \o param
            /\ status = BadRequestEnumViolation =>
                fe.Reason = field \o " must be one of [" \o param \o "]"
            /\ status \notin {BadRequestMissingField, BadRequestInvalidFormat,
                              BadRequestOutOfRange, BadRequestEnumViolation} =>
                fe.Reason = field \o " failed validation: " \o tag

C14_Witness ==
    /\ op = "MapValidationErrors"
    /\ Len(fieldErrors) = 1
    /\ fieldErrors[1].ValidationTag = "len"
    /\ fieldErrors[1].StatusCode = BadRequestOutOfRange
    /\ fieldErrors[1].Reason = "Name must be exactly 18 characters"

\* C15: every Error value FromDBError or FromValidationErrors returns has
\* PublicStatusCode = SuppressOverDetail(ServiceStatusCode); so its public
\* status is no suppressMap key and NeutralizeOverDetailedStatus, called any
\* number of times on it, leaves the value as it was returned.
C15_ClassifierOutputNeutral ==
    (op \in {"FromDBError", "FromValidationErrors"} /\ ret = "value") =>
        /\ e0.PublicStatusCode =
            (IF e0.ServiceStatusCode \in DOMAIN suppressMap
             THEN suppressMap[e0.ServiceStatusCode]
             ELSE e0.ServiceStatusCode)
        /\ e0.PublicStatusCode \notin DOMAIN suppressMap
        /\ e = e0

C15_Witness ==
    /\ op = "FromDBError"
    /\ ret = "value"
    /\ calls = 2
    /\ e0.ServiceStatusCode = ServerErrorDatabase
    /\ e0.PublicStatusCode = ServerError
    /\ e = e0

====
